---- MODULE Spec2Model ----
(***************************************************************************)
(* cppbuild: the build driver (Builder.runBuild), the build-step executor  *)
(* (Builder.runBuildStep, execCommand, execCmd), the variable resolver     *)
(* (Builder.resolveVariable), the template engine (expandTemplates,        *)
(* variable lists, escaping) and the include analyser (cppAnalyzer).       *)
(*                                                                         *)
(* Node.js runs one callback at a time and drains the promise reactions    *)
(* it queued before the next I/O callback runs.  An action below is one    *)
(* such turn of the event loop: an I/O completion (fs.stat, mkdir, the end *)
(* of a child process) followed by the code that runs up to the next await *)
(* on I/O.  Awaits that are settled by promises alone (a free log mutex, a *)
(* semaphore slot handed over by release(), the rejection issued by a      *)
(* cancellation callback) belong to the turn that settled them.            *)
(***************************************************************************)
EXTENDS Integers, Sequences, FiniteSets, TLC

\* ------------------------------------------------------------- bounds
NumFiles == 3
MaxTasksBound == 2
NumSteps == 2
MaxIncludes == 3
MaxGets == 3

Files == 1..NumFiles

Min(a, b) == IF a < b THEN a ELSE b

\* ---------------------------------------------------------- the state
VARIABLES
    options,            \* BuilderOptions: maxTasks, continueOnError, forceRebuild
    build,              \* runBuild: "idle" (between steps), "step", "done", "failed"
    stepNo,             \* index of the build step runBuild is at
    step,               \* the BuildStep being run: kind, outputFile, trim, n
    signaled,           \* cancelSource.token.signaled of the running step
    semCount,           \* AsyncSemaphore: free slots
    semQ,               \* AsyncSemaphore: waiters, first in first out
    pc,                 \* per file task: where it is suspended
    fin,                \* per file task: how it ended
    proc,               \* per file task: its child process
    out,                \* per file task: whether it saw an output file newer than its input
    filesProcessed,     \* runBuildStep counters
    filesSkipped,
    errorsEncountered,
    result,             \* what the last runBuildStep returned or that it threw
    totalErrorsEncountered, \* runBuild
    cmdFailed,          \* observation: a command of this step has failed
    spawnedAfterFail,   \* observation: subprocesses started after that failure
    spawnedAfterSignal, \* observation: subprocesses started with the token signalled
    earlierPending      \* observation: a step started while an earlier task was unfinished

VARIABLES
    rscopes,            \* resolveVariable: variables, the dictionaries from the outermost on
    rquery,             \* the name asked for by the top call
    rstack,             \* the calls of resolveVariable in progress, the innermost last
    rcache,             \* resolvedValues
    rstatus,            \* "idle", "running", "returned", "threw", "overflow"
    rresult,            \* the value returned by the top call
    selfRef,            \* observation: the last lookup of a name from its own value
    rcalls,             \* the calls of the step's or task's variable resolver so far
    rreads,             \* observation: per name, the times the dictionaries were walked for it
    rfirst,             \* observation: per name, the first value resolveVariable returned
    rlast               \* observation: the name and value of the last return of resolveVariable

VARIABLES
    tfn,                \* the text function applied: "none" before the call
    tin,                \* its input
    tparams,            \* the values the variable resolver gives
    tout                \* its result

bvars == <<options, build, stepNo, step, signaled, semCount, semQ, pc, fin, proc, out,
           filesProcessed, filesSkipped, errorsEncountered, result, totalErrorsEncountered,
           cmdFailed, spawnedAfterFail, spawnedAfterSignal, earlierPending>>

rvars == <<rscopes, rquery, rstack, rcache, rstatus, rresult, selfRef, rcalls, rreads, rfirst, rlast>>

VARIABLES
    includeFiles,       \* the workspace: the #include list of every file on disk
    analyzer,           \* the fields of the cppAnalyzer object
    acall               \* observation: the calls of getPaths and what they returned

tvars == <<tfn, tin, tparams, tout>>

avars == <<includeFiles, analyzer, acall>>

VARIABLES
    mutex,              \* an AsyncMutex: whether it is locked and the callers queued in lock()
    caller,             \* the concurrent callers of the functions the mutex guards
    disk                \* the output directories: existence and the mkdir calls issued

cvars == <<mutex, caller, disk>>

VARIABLES
    gdefs,              \* the definition of every variable of the scopes
    gcache,             \* resolvedValues: the cache one resolver closure holds
    gret                \* observation: the last return of resolveVariable

gvars == <<gdefs, gcache, gret>>

vars == <<bvars, rvars, tvars, avars, cvars, gvars>>

NoStep == [kind |-> "none", outputFile |-> FALSE, trim |-> FALSE, n |-> 0]
NoResult == [status |-> "none", filesProcessed |-> 0, filesSkipped |-> 0, errorsEncountered |-> 0]

SlotPcs == {"acquired", "stat", "mkdir", "analyze", "running"}

\* the file tasks that hold a slot of the semaphore
Holders == {f \in Files : pc[f] \in SlotPcs}

\* the child processes that are alive (a killed one until it has died)
Alive == {f \in Files : proc[f] \in {"running", "killed"}}

Matched == 1..step.n

BuildInit ==
    /\ options \in [maxTasks : 1..MaxTasksBound, continueOnError : BOOLEAN, forceRebuild : BOOLEAN]
    /\ build = "idle"
    /\ stepNo = 0
    /\ step = NoStep
    /\ signaled = FALSE
    /\ semCount = 0
    /\ semQ = <<>>
    /\ pc = [f \in Files |-> "idle"]
    /\ fin = [f \in Files |-> "none"]
    /\ proc = [f \in Files |-> "none"]
    /\ out = [f \in Files |-> "unknown"]
    /\ filesProcessed = 0
    /\ filesSkipped = 0
    /\ errorsEncountered = 0
    /\ result = NoResult
    /\ totalErrorsEncountered = 0
    /\ cmdFailed = FALSE
    /\ spawnedAfterFail = 0
    /\ spawnedAfterSignal = 0
    /\ earlierPending = FALSE

\* ------------------------------------------------ the per-file step
\* semaphore.wait() of the first n tasks: how many get a slot at once
GrantsUnlimited(n) == n
Grants(n) == Min(n, options.maxTasks)

\* cancelSource.cancel() by task f: the subscriptions of execCmd kill the running
\* children and reject their promises
VictimsNone(f, doCancel) == {}
Victims(f, doCancel) ==
    IF doCancel /\ ~signaled THEN {g \in Files \ {f} : proc[g] = "running"} ELSE {}

\* "finally { semaphore.release(); }": the slots given back when task f leaves
\* its try block and the tasks vict return after their children were killed
ReleasedUnlessThrown(f, vict, throws) == IF throws THEN vict ELSE {f} \cup vict
Released(f, vict, throws) == {f} \cup vict

\* Task f leaves its try block (return or throw), after cancelling when doCancel.
\* finally: semaphore.release().  The tasks whose child was killed return at
\* "if (cancelSource.token.signaled) return" and release too; every released
\* slot goes to the first waiter, which goes on to checkFileExists.
Complete(f, outcome, doCancel, throws) ==
    LET own == IF proc[f] = "running" THEN "exited" ELSE proc[f]
        vict == Victims(f, doCancel)
        rel == {f} \cup vict
        k == Cardinality(Released(f, vict, throws))
        g == Min(k, Len(semQ))
        granted == {semQ[i] : i \in 1..g}
    IN  /\ pc' = [t \in Files |-> IF t \in rel THEN "done"
                                  ELSE IF t \in granted THEN "acquired" ELSE pc[t]]
        /\ fin' = [t \in Files |-> IF t = f THEN outcome
                                   ELSE IF t \in vict THEN "cancelled" ELSE fin[t]]
        /\ proc' = [t \in Files |-> IF t \in vict THEN "killed"
                                    ELSE IF t = f THEN own ELSE proc[t]]
        /\ semQ' = SubSeq(semQ, g + 1, Len(semQ))
        /\ semCount' = semCount + (k - g)
        /\ signaled' = (signaled \/ doCancel)
        /\ build' = IF throws /\ build = "step" THEN "failed" ELSE build

\* execCmd: cp.exec starts the child; with the token already signalled the
\* promise is rejected and the subscription kills the child at once
Spawn(f) ==
    /\ spawnedAfterFail' = spawnedAfterFail + (IF cmdFailed THEN 1 ELSE 0)
    /\ spawnedAfterSignal' = spawnedAfterSignal + (IF signaled THEN 1 ELSE 0)
    /\ IF signaled
       THEN LET g == Min(1, Len(semQ))
            IN  /\ pc' = [t \in Files |-> IF t = f THEN "done"
                                          ELSE IF g = 1 /\ t = semQ[1] THEN "acquired" ELSE pc[t]]
                /\ fin' = [fin EXCEPT ![f] = "cancelled"]
                /\ proc' = [proc EXCEPT ![f] = "killed"]
                /\ semQ' = SubSeq(semQ, g + 1, Len(semQ))
                /\ semCount' = semCount + (1 - g)
                /\ UNCHANGED <<signaled, build>>
       ELSE /\ pc' = [pc EXCEPT ![f] = "running"]
            /\ proc' = [proc EXCEPT ![f] = "running"]
            /\ UNCHANGED <<fin, semQ, semCount, signaled, build>>

\* "if (cancelSource.token.signaled) return;" right before execCommand
Polled280Never == FALSE
Polled280 == signaled

\* const command = expandTemplate(...); poll; execCommand(...)
Launch(f) ==
    IF Polled280
    THEN /\ Complete(f, "cancelled", FALSE, FALSE)
         /\ UNCHANGED <<spawnedAfterFail, spawnedAfterSignal>>
    ELSE Spawn(f)

\* from "if (cancelSource.token.signaled) return;" after the output file part
\* to the call of the analyzer or of execCommand
AfterOutput(f) ==
    IF signaled
    THEN /\ Complete(f, "cancelled", FALSE, FALSE)
         /\ UNCHANGED <<spawnedAfterFail, spawnedAfterSignal>>
    ELSE IF step.trim
         THEN /\ pc' = [pc EXCEPT ![f] = "analyze"]
              /\ UNCHANGED <<fin, proc, semQ, semCount, signaled, build,
                             spawnedAfterFail, spawnedAfterSignal>>
         ELSE Launch(f)

\* outputFileStats.mtime > inputFileDate, behind !forceRebuild and checkFileExists
SkipsNotOlder(o) == ~options.forceRebuild /\ o \in {"newer", "equal"}
Skips(o) == ~options.forceRebuild /\ o = "newer"

\* runBuild starts the next step; runBuildStep creates the file tasks, each of
\* which polls the (fresh) token and calls semaphore.wait()
StartFileStep ==
    /\ build = "idle"
    /\ stepNo < NumSteps
    /\ \E n \in 0..NumFiles, o \in BOOLEAN, t \in BOOLEAN :
        LET g == Grants(n)
        IN  /\ step' = [kind |-> "file", outputFile |-> o, trim |-> t, n |-> n]
            /\ pc' = [f \in Files |-> IF f <= g THEN "acquired"
                                      ELSE IF f <= n THEN "wait" ELSE "idle"]
            /\ semCount' = options.maxTasks - g
            /\ semQ' = [i \in 1..(n - g) |-> g + i]
    /\ build' = "step"
    /\ stepNo' = stepNo + 1
    /\ signaled' = FALSE
    /\ fin' = [f \in Files |-> "none"]
    /\ proc' = [f \in Files |-> "none"]
    /\ out' = [f \in Files |-> "unknown"]
    /\ filesProcessed' = 0
    /\ filesSkipped' = 0
    /\ errorsEncountered' = 0
    /\ cmdFailed' = FALSE
    /\ spawnedAfterFail' = 0
    /\ spawnedAfterSignal' = 0
    /\ earlierPending' = (earlierPending \/ \E f \in Files : pc[f] \notin {"idle", "done"})
    /\ result' = NoResult
    /\ UNCHANGED <<options, totalErrorsEncountered>>

\* checkFileExists(fullInputFilePath) has answered; the per-file scope is built
\* and outputFile resolved (either may throw)
CheckInput(f) ==
    /\ step.kind = "file"
    /\ pc[f] = "acquired"
    /\ \E ok \in BOOLEAN :
        IF ~ok
        THEN /\ Complete(f, "threw", TRUE, TRUE)
             /\ UNCHANGED <<spawnedAfterFail, spawnedAfterSignal>>
        ELSE IF step.outputFile
             THEN /\ pc' = [pc EXCEPT ![f] = "stat"]
                  /\ UNCHANGED <<fin, proc, semQ, semCount, signaled, build,
                                 spawnedAfterFail, spawnedAfterSignal>>
             ELSE AfterOutput(f)
    /\ UNCHANGED <<options, stepNo, step, out, filesProcessed, filesSkipped,
                   errorsEncountered, result, totalErrorsEncountered, cmdFailed, earlierPending>>

\* getFileMTime(input), checkFileExists(output) and getFileStatus(output) have
\* answered: the incremental-build decision
CheckOutput(f) ==
    /\ pc[f] = "stat"
    /\ \E o \in {"missing", "older", "equal", "newer"} :
        /\ out' = [out EXCEPT ![f] = IF o = "newer" THEN "newer" ELSE "notNewer"]
        /\ IF Skips(o)
           THEN /\ filesSkipped' = filesSkipped + 1
                /\ Complete(f, "skipped", FALSE, FALSE)
           ELSE /\ pc' = [pc EXCEPT ![f] = "mkdir"]
                /\ UNCHANGED <<fin, proc, semQ, semCount, signaled, build, filesSkipped>>
    /\ UNCHANGED <<options, stepNo, step, filesProcessed, errorsEncountered, result,
                   totalErrorsEncountered, cmdFailed, spawnedAfterFail, spawnedAfterSignal, earlierPending>>

\* createOutputDirectory has answered (mkdir may fail)
MkDir(f) ==
    /\ pc[f] = "mkdir"
    /\ \E ok \in BOOLEAN :
        IF ~ok
        THEN /\ Complete(f, "threw", TRUE, TRUE)
             /\ UNCHANGED <<spawnedAfterFail, spawnedAfterSignal>>
        ELSE AfterOutput(f)
    /\ UNCHANGED <<options, stepNo, step, out, filesProcessed, filesSkipped,
                   errorsEncountered, result, totalErrorsEncountered, cmdFailed, earlierPending>>

\* analyzer.enlistFilePaths and getIncludes have answered
Analyze(f) ==
    /\ pc[f] = "analyze"
    /\ Launch(f)
    /\ UNCHANGED <<options, stepNo, step, out, filesProcessed, filesSkipped,
                   errorsEncountered, result, totalErrorsEncountered, cmdFailed, earlierPending>>

\* a killed child has died; its exec callback finds the promise settled
ProcDie(f) ==
    /\ proc[f] = "killed"
    /\ proc' = [proc EXCEPT ![f] = "exited"]
    /\ UNCHANGED <<options, build, stepNo, step, signaled, semCount, semQ, pc, fin, out,
                   filesProcessed, filesSkipped, errorsEncountered, result, totalErrorsEncountered,
                   cmdFailed, spawnedAfterFail, spawnedAfterSignal, earlierPending>>

\* "if (!options.continueOnError) cancelSource.cancel();" after a failed command
CancelsOnErrorNever == FALSE
CancelsOnError == ~options.continueOnError

\* the child of task f has ended: execCommand logs and returns the result, the
\* task polls the token, counts, cancels on error unless continueOnError
ProcExit(f) ==
    /\ step.kind = "file"
    /\ pc[f] = "running"
    /\ proc[f] = "running"
    /\ \E ok \in BOOLEAN :
        IF signaled
        THEN /\ Complete(f, "cancelled", FALSE, FALSE)
             /\ UNCHANGED <<filesProcessed, errorsEncountered, cmdFailed>>
        ELSE IF ok
             THEN /\ filesProcessed' = filesProcessed + 1
                  /\ Complete(f, "processed", FALSE, FALSE)
                  /\ UNCHANGED <<errorsEncountered, cmdFailed>>
             ELSE /\ errorsEncountered' = errorsEncountered + 1
                  /\ cmdFailed' = TRUE
                  /\ Complete(f, "error", CancelsOnError, FALSE)
                  /\ UNCHANGED filesProcessed
    /\ UNCHANGED <<options, stepNo, step, out, filesSkipped, result, totalErrorsEncountered,
                   spawnedAfterFail, spawnedAfterSignal, earlierPending>>

\* await Promise.all(tasks) is fulfilled when every task is
AllTasksDoneAny == \E f \in Matched : pc[f] = "done"
AllTasksDone == \A f \in Matched : pc[f] = "done"

\* runBuild after a step returned: the totals, then
\* "if (!options.continueOnError && result.errorsEncountered > 0) break;"
BreaksNever(errors) == FALSE
Breaks(errors) == ~options.continueOnError /\ errors > 0

AfterStep(processed, skipped, errors) ==
    /\ result' = [status |-> "returned", filesProcessed |-> processed,
                  filesSkipped |-> skipped, errorsEncountered |-> errors]
    /\ totalErrorsEncountered' = totalErrorsEncountered + errors
    /\ build' = IF Breaks(errors) \/ stepNo = NumSteps THEN "done" ELSE "idle"

\* runBuildStep returns { filesProcessed, filesSkipped, errorsEncountered }
StepReturn ==
    /\ build = "step"
    /\ step.kind \in {"file", "dir"}
    /\ AllTasksDone
    /\ AfterStep(filesProcessed, filesSkipped, errorsEncountered)
    /\ UNCHANGED <<options, stepNo, step, signaled, semCount, semQ, pc, fin, proc, out,
                   filesProcessed, filesSkipped, errorsEncountered,
                   cmdFailed, spawnedAfterFail, spawnedAfterSignal, earlierPending>>

\* ------------------------------------- the per-directory and single steps
StepReset ==
    /\ build' = "step"
    /\ stepNo' = stepNo + 1
    /\ signaled' = FALSE
    /\ semQ' = <<>>
    /\ fin' = [f \in Files |-> "none"]
    /\ out' = [f \in Files |-> "unknown"]
    /\ filesProcessed' = 0
    /\ filesSkipped' = 0
    /\ errorsEncountered' = 0
    /\ cmdFailed' = FALSE
    /\ spawnedAfterFail' = 0
    /\ spawnedAfterSignal' = 0
    /\ earlierPending' = (earlierPending \/ \E f \in Files : pc[f] \notin {"idle", "done"})
    /\ result' = NoResult
    /\ UNCHANGED <<options, totalErrorsEncountered>>

\* runBuildStep with directoryPattern: the directories are visited one after the
\* other; the first one is at checkDirectoryExists
StartDirStep ==
    /\ build = "idle"
    /\ stepNo < NumSteps
    /\ \E n \in 0..NumFiles :
        /\ step' = [kind |-> "dir", outputFile |-> FALSE, trim |-> FALSE, n |-> n]
        /\ pc' = [d \in Files |-> IF d = 1 /\ n >= 1 THEN "dirstat"
                                  ELSE IF d <= n THEN "wait" ELSE "idle"]
    /\ semCount' = 0
    /\ proc' = [f \in Files |-> "none"]
    /\ StepReset

\* the loop goes to directory d + 1, or ends: "if (cancelSource.token.signaled) break;"
DirLoop(d, outcome, cancelled) ==
    /\ pc' = [t \in Files |-> IF t = d THEN "done"
                              ELSE IF t > d /\ t <= step.n
                                   THEN (IF cancelled THEN "done"
                                         ELSE IF t = d + 1 THEN "dirstat" ELSE pc[t])
                                   ELSE pc[t]]
    /\ fin' = [t \in Files |-> IF t = d THEN outcome
                               ELSE IF t > d /\ t <= step.n /\ cancelled THEN "cancelled"
                               ELSE fin[t]]

\* checkDirectoryExists has answered; the command is expanded and started
DirCheck(d) ==
    /\ step.kind = "dir"
    /\ pc[d] = "dirstat"
    /\ \E ok \in BOOLEAN :
        IF ~ok
        THEN /\ pc' = [pc EXCEPT ![d] = "done"]
             /\ fin' = [fin EXCEPT ![d] = "threw"]
             /\ build' = IF build = "step" THEN "failed" ELSE build
             /\ UNCHANGED <<proc, signaled, spawnedAfterFail, spawnedAfterSignal>>
        ELSE IF signaled
             THEN /\ DirLoop(d, "cancelled", TRUE)
                  /\ UNCHANGED <<proc, signaled, build, spawnedAfterFail, spawnedAfterSignal>>
             ELSE /\ pc' = [pc EXCEPT ![d] = "running"]
                  /\ proc' = [proc EXCEPT ![d] = "running"]
                  /\ spawnedAfterFail' = spawnedAfterFail + (IF cmdFailed THEN 1 ELSE 0)
                  /\ UNCHANGED <<fin, signaled, build, spawnedAfterSignal>>
    /\ UNCHANGED <<options, stepNo, step, semCount, semQ, out, filesProcessed, filesSkipped,
                   errorsEncountered, result, totalErrorsEncountered, cmdFailed, earlierPending>>

\* the command of directory d has ended
DirExit(d) ==
    /\ step.kind = "dir"
    /\ pc[d] = "running"
    /\ proc[d] = "running"
    /\ proc' = [proc EXCEPT ![d] = "exited"]
    /\ \E ok \in BOOLEAN :
        IF signaled
        THEN /\ DirLoop(d, "cancelled", TRUE)
             /\ UNCHANGED <<filesProcessed, errorsEncountered, cmdFailed, signaled>>
        ELSE IF ok
             THEN /\ filesProcessed' = filesProcessed + 1
                  /\ DirLoop(d, "processed", FALSE)
                  /\ UNCHANGED <<errorsEncountered, cmdFailed, signaled>>
             ELSE /\ errorsEncountered' = errorsEncountered + 1
                  /\ cmdFailed' = TRUE
                  /\ signaled' = CancelsOnError
                  /\ DirLoop(d, "error", CancelsOnError)
                  /\ UNCHANGED filesProcessed
    /\ UNCHANGED <<options, build, stepNo, step, semCount, semQ, out, filesSkipped, result,
                   totalErrorsEncountered, spawnedAfterFail, spawnedAfterSignal, earlierPending>>

\* runBuildStep without filePattern and directoryPattern: one command
StartOnceStep ==
    /\ build = "idle"
    /\ stepNo < NumSteps
    /\ step' = [kind |-> "once", outputFile |-> FALSE, trim |-> FALSE, n |-> 1]
    /\ pc' = [f \in Files |-> IF f = 1 THEN "running" ELSE "idle"]
    /\ proc' = [f \in Files |-> IF f = 1 THEN "running" ELSE "none"]
    /\ semCount' = 0
    /\ StepReset

\* the single command has ended: { filesProcessed: -1, filesSkipped: 0, errorsEncountered }
OnceExit ==
    /\ step.kind = "once"
    /\ build = "step"
    /\ pc[1] = "running"
    /\ \E ok \in BOOLEAN :
        /\ pc' = [pc EXCEPT ![1] = "done"]
        /\ proc' = [proc EXCEPT ![1] = "exited"]
        /\ fin' = [fin EXCEPT ![1] = IF ok THEN "processed" ELSE "error"]
        /\ signaled' = (~ok /\ CancelsOnError)
        /\ cmdFailed' = ~ok
        /\ errorsEncountered' = (IF ok THEN 0 ELSE 1)
        /\ AfterStep(-1, 0, IF ok THEN 0 ELSE 1)
    /\ UNCHANGED <<options, stepNo, step, semCount, semQ, out, filesProcessed, filesSkipped,
                   spawnedAfterFail, spawnedAfterSignal, earlierPending>>

\* runBuild at the head of its loop over the build steps: the step sets more
\* than one of filePattern, directoryPattern and fileList and runBuild throws
\* before it calls runBuildStep for it
StepOptions == {"filePattern", "directoryPattern", "fileList"}
ExclusiveOptions ==
    /\ build = "idle"
    /\ stepNo < NumSteps
    /\ \E set \in SUBSET StepOptions : Cardinality(set) > 1
    /\ build' = "failed"
    /\ step' = [kind |-> "invalid", outputFile |-> FALSE, trim |-> FALSE, n |-> 0]
    /\ UNCHANGED <<options, stepNo, signaled, semCount, semQ, pc, fin, proc, out,
                   filesProcessed, filesSkipped, errorsEncountered, result,
                   totalErrorsEncountered, cmdFailed, spawnedAfterFail,
                   spawnedAfterSignal, earlierPending>>

\* ------------------------------------------------ the variable resolver
\* ParamsDictionary names; filePath is one of the per-file command variables
Names == {"a", "b", "filePath"}
RefNames == {"a", "b"}

\* depth of the JavaScript call stack at which a call fails (RangeError)
MaxDepth == 5

\* A string is a sequence of characters; a template is a piece of literal text,
\* "${ref}text" (sref) or "$${ref}text" (mref).
Lit(s) == [kind |-> "lit", ref |-> "", text |-> s]
SRef(n, s) == [kind |-> "sref", ref |-> n, text |-> s]
MRef(n, s) == [kind |-> "mref", ref |-> n, text |-> s]

\* string | string[] | undefined
Absent == [def |-> FALSE, multi |-> FALSE, items |-> <<>>]
One(x) == [def |-> TRUE, multi |-> FALSE, items |-> <<x>>]
Many(xs) == [def |-> TRUE, multi |-> TRUE, items |-> xs]

\* JavaScript truthiness of string | string[] | undefined: "" and undefined are falsy
Truthy(v) == v.def /\ (v.multi \/ v.items[1] # <<>>)

RECURSIVE SpaceJoin(_)
SpaceJoin(xs) ==
    IF xs = <<>> THEN <<>>
    ELSE IF Len(xs) = 1 THEN xs[1]
    ELSE xs[1] \o <<" ">> \o SpaceJoin(Tail(xs))

\* joint(replacements)
Joint(v) == IF v.multi THEN SpaceJoin(v.items) ELSE v.items[1]

\* lodash uniq: the first occurrence of each element, in order
UniqKeepsAll(xs) == xs
RECURSIVE Uniq(_)
Uniq(xs) ==
    IF xs = <<>> THEN <<>>
    ELSE LET r == Uniq(SubSeq(xs, 1, Len(xs) - 1))
             x == xs[Len(xs)]
         IN  IF \E i \in 1..Len(r) : r[i] = x THEN r ELSE Append(r, x)

\* runBuild: stepVariables = clone(variables), push(buildStep.params), push(cliParams)
StepVariables(params, stepParams, cliParams) == <<params, stepParams, cliParams>>

\* runBuildStep, file task: stepVariables = clone(variables), push(cmdVariables)
TaskVariables(variables, cmdVariables) == Append(variables, cmdVariables)

NoParams == [n \in Names |-> Absent]

\* the values a params entry takes here
ParamValues ==
    {Absent, One(Lit(<<>>)), One(Lit(<<"x">>)), Many(<<>>), Many(<<Lit(<<"x">>), Lit(<<"x">>)>>),
     Many(<<Lit(<<"x">>), Lit(<<"y">>), Lit(<<"x">>)>>)}
    \cup {One(SRef(n, <<>>)) : n \in RefNames}
    \cup {One(SRef(n, <<"y">>)) : n \in RefNames}
    \cup {Many(<<MRef(n, <<>>), Lit(<<"y">>)>>) : n \in RefNames}

\* cmdVariables[PV.filePath] = escapeTemplateText(filePath)
CmdVariables == [n \in Names |-> IF n = "filePath" THEN One(Lit(<<"f">>)) ELSE Absent]

NewFrame(n) == [name |-> n, si |-> 1, ei |-> 1, cur |-> Absent, acc |-> <<>>]
NoSelfRef == [seen |-> FALSE, hadOuter |-> FALSE, yielded |-> FALSE]
NoReturn == [name |-> "", value |-> Absent]

\* the calls of the variable resolver that one cache of a step or task serves here
MaxCalls == 2

\* resolveVariable: resolvedValues.get(variableName) !== undefined
CachedNever(n) == FALSE
Cached(n) == rcache[n].def

\* a return of resolveVariable(n) with value v, as the observations record it
Returned(n, v) ==
    /\ rlast' = [name |-> n, value |-> v]
    /\ rfirst' = IF rfirst[n].def THEN rfirst ELSE [rfirst EXCEPT ![n] = v]

\* the dictionaries are walked for the name of every call that gets past the cache
Walked ==
    rreads' = IF Len(rstack') > Len(rstack)
              THEN [rreads EXCEPT ![rstack'[Len(rstack')].name] = @ + 1]
              ELSE rreads

ResolverIdle ==
    /\ rscopes = <<>>
    /\ rquery = ""
    /\ rstack = <<>>
    /\ rcache = NoParams
    /\ rstatus = "idle"
    /\ rresult = Absent
    /\ selfRef = NoSelfRef
    /\ rcalls = 0
    /\ rreads = [n \in Names |-> 0]
    /\ rfirst = NoParams
    /\ rlast = NoReturn

ResolveInit ==
    /\ \E pa \in ParamValues, pb \in ParamValues, sa \in ParamValues,
          ca \in {Absent, One(Lit(<<"c">>))}, cf \in {Absent, One(Lit(<<"c">>))},
          perFile \in BOOLEAN :
        LET params == [n \in Names |-> IF n = "a" THEN pa ELSE IF n = "b" THEN pb ELSE Absent]
            stepParams == [n \in Names |-> IF n = "a" THEN sa ELSE Absent]
            cliParams == [n \in Names |-> IF n = "a" THEN ca ELSE IF n = "filePath" THEN cf ELSE Absent]
            variables == StepVariables(params, stepParams, cliParams)
        IN  rscopes = IF perFile THEN TaskVariables(variables, CmdVariables) ELSE variables
    /\ rquery \in Names
    /\ rstack = <<NewFrame(rquery)>>
    /\ rcache = NoParams
    /\ rstatus = "running"
    /\ rresult = Absent
    /\ selfRef = NoSelfRef
    /\ rcalls = 1
    /\ rreads = [n \in Names |-> IF n = rquery THEN 1 ELSE 0]
    /\ rfirst = NoParams
    /\ rlast = NoReturn

Top == rstack[Len(rstack)]

\* The value val has come back for the reference in template e of frame F:
\* expandTemplates builds the text; in an array the result joins newValues
\* through uniq; then the loop goes on.  [ok, frame]
Deliver(F, sc, e, val) ==
    LET bad == e.kind = "mref" /\ ~Truthy(val)      \* getMultivalues: "is undefined"
        vals == IF val.multi THEN val.items ELSE <<val.items[1]>>
        res == IF e.kind = "lit" THEN <<e.text>>
               ELSE IF e.kind = "sref" THEN <<Joint(val) \o e.text>>
               ELSE [i \in 1..Len(vals) |-> vals[i] \o e.text]
    IN  IF bad THEN [ok |-> FALSE, frame |-> F]
        ELSE IF sc.multi
             THEN [ok |-> TRUE, frame |-> [F EXCEPT !.acc = Uniq(F.acc \o res), !.ei = F.ei + 1]]
             ELSE [ok |-> TRUE,
                   frame |-> [F EXCEPT !.cur = IF e.kind = "mref" THEN Many(res) ELSE One(res[1]),
                                       !.si = F.si + 1, !.ei = 1]]

Replace(F) == [rstack EXCEPT ![Len(rstack)] = F]

Threw ==
    /\ rstatus' = "threw"
    /\ UNCHANGED <<rstack, rcache, rresult>>

Delivered(F, sc, e, val) ==
    LET d == Deliver(F, sc, e, val)
    IN  IF d.ok
        THEN /\ rstack' = Replace(d.frame)
             /\ UNCHANGED <<rcache, rstatus, rresult>>
        ELSE Threw

\* resolveVariable, one turn of "for (const dictionary of variables)": the
\* dictionary has no such name, or the next template of its value is expanded,
\* which may look a name up: the name itself (the value of the outer
\* dictionaries, or an error), a cached value, or a nested resolveVariable
RStep ==
    /\ rstatus = "running"
    /\ Top.si <= Len(rscopes)
    /\ LET F == Top
           sc == rscopes[F.si][F.name]
       IN  IF ~sc.def
           THEN /\ rstack' = Replace([F EXCEPT !.si = F.si + 1])
                /\ UNCHANGED <<rcache, rstatus, rresult, selfRef, rfirst, rlast>>
           ELSE IF sc.multi /\ F.ei > Len(sc.items)
           THEN /\ rstack' = Replace([F EXCEPT !.cur = Many(F.acc), !.acc = <<>>,
                                               !.si = F.si + 1, !.ei = 1])
                /\ UNCHANGED <<rcache, rstatus, rresult, selfRef, rfirst, rlast>>
           ELSE LET e == sc.items[F.ei]
                IN  IF e.kind = "lit"
                    THEN /\ Delivered(F, sc, e, Absent)
                         /\ UNCHANGED <<selfRef, rfirst, rlast>>
                    ELSE IF e.ref = F.name
                    THEN /\ selfRef' = [seen |-> TRUE, hadOuter |-> F.cur.def, yielded |-> Truthy(F.cur)]
                         /\ IF Truthy(F.cur) THEN Delivered(F, sc, e, F.cur) ELSE Threw
                         /\ UNCHANGED <<rfirst, rlast>>
                    ELSE IF rcache[F.name].def
                    THEN /\ Delivered(F, sc, e, rcache[F.name])
                         /\ UNCHANGED <<selfRef, rfirst, rlast>>
                    ELSE IF Cached(e.ref)
                    THEN /\ Delivered(F, sc, e, rcache[e.ref])
                         /\ Returned(e.ref, rcache[e.ref])
                         /\ UNCHANGED selfRef
                    ELSE IF Len(rstack) >= MaxDepth
                    THEN /\ rstatus' = "overflow"
                         /\ UNCHANGED <<rstack, rcache, rresult, selfRef, rfirst, rlast>>
                    ELSE /\ rstack' = Append(rstack, NewFrame(e.ref))
                         /\ UNCHANGED <<rcache, rstatus, rresult, selfRef, rfirst, rlast>>
    /\ Walked
    /\ UNCHANGED <<rscopes, rquery, rcalls>>

\* resolveVariable after the loop: undefined is an error; else the value is
\* cached and returned, to the caller's expansion or as the result
RFinish ==
    /\ rstatus = "running"
    /\ Top.si > Len(rscopes)
    /\ LET F == Top
       IN  IF ~F.cur.def
           THEN Threw /\ UNCHANGED <<rfirst, rlast>>
           ELSE /\ rcache' = [rcache EXCEPT ![F.name] = F.cur]
                /\ Returned(F.name, F.cur)
                /\ IF Len(rstack) = 1
                   THEN /\ rstack' = <<>>
                        /\ rstatus' = "returned"
                        /\ rresult' = F.cur
                   ELSE LET C == rstack[Len(rstack) - 1]
                            sc == rscopes[C.si][C.name]
                            d == Deliver(C, sc, sc.items[C.ei], F.cur)
                        IN  IF d.ok
                            THEN /\ rstack' = Append(SubSeq(rstack, 1, Len(rstack) - 2), d.frame)
                                 /\ UNCHANGED <<rstatus, rresult>>
                            ELSE /\ rstatus' = "threw"
                                 /\ UNCHANGED <<rstack, rresult>>
    /\ UNCHANGED <<rscopes, rquery, selfRef, rcalls, rreads>>

\* the resolver of the step or task is called again, with the same cache:
\* resolveVariable returns the cached value or walks the dictionaries
RCall ==
    /\ rstatus = "returned"
    /\ rcalls < MaxCalls
    /\ rcalls' = rcalls + 1
    /\ \E q \in Names :
        /\ rquery' = q
        /\ IF Cached(q)
           THEN /\ rresult' = rcache[q]
                /\ Returned(q, rcache[q])
                /\ UNCHANGED <<rstack, rstatus>>
           ELSE /\ rstack' = <<NewFrame(q)>>
                /\ rstatus' = "running"
                /\ UNCHANGED <<rresult, rfirst, rlast>>
    /\ Walked
    /\ UNCHANGED <<rscopes, rcache, selfRef>>

\* ------------------------------------------------ the text functions
\* Strings are sequences of characters.
BS == "\\"
QT == "'"

\* the longest string and the longest list drawn as input
MaxStrLen == 2
MaxListLen == 2

RECURSIVE Flatten(_)
Flatten(xss) == IF xss = <<>> THEN <<>> ELSE Head(xss) \o Flatten(Tail(xss))

RECURSIVE JoinWith(_, _)
JoinWith(xs, sep) ==
    IF xs = <<>> THEN <<>>
    ELSE IF Len(xs) = 1 THEN xs[1]
    ELSE xs[1] \o sep \o JoinWith(Tail(xs), sep)

StringsOver(alphabet, maxLen) == UNION {[1..n -> alphabet] : n \in 0..maxLen}

Contains(t, c) == \E i \in 1..Len(t) : t[i] = c

IsSpace(c) == c = " "

\* escapeTemplateText: a backslash before each of [ ] ( ) $ { } , \
Special == {"[", "]", "(", ")", "$", "{", "}", ",", BS}
SpecialNoBackslash == Special \ {BS}
EscapeWith(t, special) ==
    Flatten([i \in 1..Len(t) |-> IF t[i] \in special THEN <<BS, t[i]>> ELSE <<t[i]>>])
EscapeNoBackslash(t) == EscapeWith(t, SpecialNoBackslash)
escapeTemplateText(t) == EscapeWith(t, Special)

\* unescapeTemplateText: text.replace(/(?:\\(.))/g, '$1')
RECURSIVE unescapeTemplateText(_)
unescapeTemplateText(t) ==
    IF t = <<>> THEN <<>>
    ELSE IF t[1] = BS /\ Len(t) >= 2
         THEN <<t[2]>> \o unescapeTemplateText(SubSeq(t, 3, Len(t)))
         ELSE <<t[1]>> \o unescapeTemplateText(Tail(t))

\* value.replace(/\'/g, '\\\'')
EscapeQuotes(t) == Flatten([i \in 1..Len(t) |-> IF t[i] = QT THEN <<BS, QT>> ELSE <<t[i]>>])

\* value.replace(/\\'/g, '\'')
RECURSIVE UnescapeQuotes(_)
UnescapeQuotes(t) ==
    IF t = <<>> THEN <<>>
    ELSE IF t[1] = BS /\ Len(t) >= 2 /\ t[2] = QT
         THEN <<QT>> \o UnescapeQuotes(SubSeq(t, 3, Len(t)))
         ELSE <<t[1]>> \o UnescapeQuotes(Tail(t))

\* variableListJoin of a list: every value in single quotes, its quotes
\* escaped, the values joined with commas
QuoteValue(v) ==
    <<QT>> \o (IF Contains(v, QT) \/ Contains(v, BS) THEN EscapeQuotes(v) ELSE v) \o <<QT>>
variableListJoin(xs) == JoinWith([i \in 1..Len(xs) |-> QuoteValue(xs[i])], <<",">>)

\* The regular expressions VariableList and ListValues, read from position i:
\* the position after the spaces at i
RECURSIVE SkipSpaces(_, _)
SkipSpaces(t, i) == IF i <= Len(t) /\ IsSpace(t[i]) THEN SkipSpaces(t, i + 1) ELSE i

\* '[^'\\]*(?:\\[\S\s][^'\\]*)*' from the character after the opening quote:
\* the position of the closing quote, 0 if there is none
RECURSIVE CloseQuote(_, _)
CloseQuote(t, i) ==
    IF i > Len(t) THEN 0
    ELSE IF t[i] = QT THEN i
    ELSE IF t[i] = BS THEN (IF i + 1 > Len(t) THEN 0 ELSE CloseQuote(t, i + 2))
    ELSE CloseQuote(t, i + 1)

Plain(c) == c \notin {",", QT, " ", BS}

\* [^,'\s\\]*(?:\s+[^,'\s\\]+)* from i: the position after the unquoted value
RECURSIVE EndUnquoted(_, _)
EndUnquoted(t, i) ==
    IF i <= Len(t) /\ Plain(t[i]) THEN EndUnquoted(t, i + 1)
    ELSE LET j == SkipSpaces(t, i)
         IN  IF j > i /\ j <= Len(t) /\ Plain(t[j]) THEN EndUnquoted(t, j) ELSE i

\* one value of the list from i: [ok, from, to (the text of the value), next]
ListItem(t, i) ==
    LET a == SkipSpaces(t, i)
    IN  IF a <= Len(t) /\ t[a] = QT
        THEN LET c == CloseQuote(t, a + 1)
             IN  [ok |-> c # 0, from |-> a, to |-> c, next |-> SkipSpaces(t, c + 1)]
        ELSE LET e == EndUnquoted(t, a)
             IN  [ok |-> TRUE, from |-> a, to |-> e - 1, next |-> SkipSpaces(t, e)]

\* the values of a list that VariableList accepts, as ListValues matches them
\* and variableListParse trims and unquotes them: [ok, values]
RECURSIVE ListItems(_, _)
ListItems(t, i) ==
    LET it == ListItem(t, i)
        raw == SubSeq(t, it.from, it.to)
        val == IF Len(raw) >= 2 /\ raw[1] = QT /\ raw[Len(raw)] = QT
               THEN UnescapeQuotes(SubSeq(raw, 2, Len(raw) - 1))
               ELSE UnescapeQuotes(raw)
        \* (?!\s*$): no value is matched where only spaces are left
        here == IF SkipSpaces(t, i) > Len(t) THEN <<>> ELSE <<val>>
    IN  IF ~it.ok THEN [ok |-> FALSE, values |-> <<>>]
        ELSE IF it.next > Len(t) THEN [ok |-> TRUE, values |-> here]
        ELSE IF t[it.next] # "," THEN [ok |-> FALSE, values |-> <<>>]
        ELSE LET rest == ListItems(t, it.next + 1)
             IN  [ok |-> rest.ok, values |-> IF rest.ok THEN here \o rest.values ELSE <<>>]

\* variableListParse: throws when VariableList does not match
variableListParse(t) == ListItems(t, 1)

\* ------------------------------------------------ expandTemplates
\* xRegExp.matchRecursive(text, left, right, 'g', {escapeChar: '\\'}) for the
\* delimiters ( ) and for \$\$?{ }: the length of a left delimiter at i, 0 if none
LeftLen(t, i, kind) ==
    IF kind = "paren" THEN (IF t[i] = "(" THEN 1 ELSE 0)
    ELSE IF t[i] = "$" /\ i + 1 <= Len(t) /\ t[i + 1] = "{" THEN 2
    ELSE IF t[i] = "$" /\ i + 2 <= Len(t) /\ t[i + 1] = "$" /\ t[i + 2] = "{" THEN 3
    ELSE 0

IsRight(t, i, kind) == t[i] = (IF kind = "paren" THEN ")" ELSE "}")

\* the position of the right delimiter that closes the match, 0 if none
RECURSIVE CloseAt(_, _, _, _)
CloseAt(t, i, depth, kind) ==
    IF i > Len(t) THEN 0
    ELSE IF t[i] = BS THEN CloseAt(t, i + 2, depth, kind)
    ELSE IF LeftLen(t, i, kind) > 0 THEN CloseAt(t, i + LeftLen(t, i, kind), depth + 1, kind)
    ELSE IF IsRight(t, i, kind)
         THEN (IF depth = 0 THEN i ELSE CloseAt(t, i + 1, depth - 1, kind))
    ELSE CloseAt(t, i + 1, depth, kind)

\* matchRecursive: the outermost matches from i on, each with its index (from
\* 0, as in JavaScript), the length of its left delimiter, its inner and its
\* outer text; a delimiter without its partner is an error (bad)
RECURSIVE Matches(_, _, _)
Matches(t, i, kind) ==
    IF i > Len(t) THEN <<>>
    ELSE IF t[i] = BS THEN Matches(t, i + 2, kind)
    ELSE IF LeftLen(t, i, kind) > 0
         THEN LET l == LeftLen(t, i, kind)
                  c == CloseAt(t, i + l, 0, kind)
              IN  IF c = 0
                  THEN <<[bad |-> TRUE, index |-> i - 1, left |-> l, inner |-> <<>>, outer |-> <<>>]>>
                  ELSE <<[bad |-> FALSE, index |-> i - 1, left |-> l,
                          inner |-> SubSeq(t, i + l, c - 1), outer |-> SubSeq(t, i, c)]>>
                       \o Matches(t, c + 1, kind)
    ELSE IF IsRight(t, i, kind)
         THEN <<[bad |-> TRUE, index |-> i - 1, left |-> 0, inner |-> <<>>, outer |-> <<>>]>>
    ELSE Matches(t, i + 1, kind)

Unbalanced(ms) == \E k \in 1..Len(ms) : ms[k].bad

\* replaceAt: string.substr(0, index) + replacement + string.substring(index + length)
replaceAt(t, index, length, replacement) ==
    SubSeq(t, 1, Min(index, Len(t))) \o replacement \o SubSeq(t, index + length + 1, Len(t))

\* replaceRecursive: the matches replaced from the left, the index of each
\* corrected by the growth of the text so far
RECURSIVE ReplaceFrom(_, _, _, _, _)
ReplaceFrom(t, ms, reps, k, offset) ==
    IF k > Len(ms) THEN t
    ELSE IF reps[k] = ms[k].outer THEN ReplaceFrom(t, ms, reps, k + 1, offset)
    ELSE ReplaceFrom(replaceAt(t, ms[k].index + offset, Len(ms[k].outer), reps[k]),
                     ms, reps, k + 1, offset + Len(reps[k]) - Len(ms[k].outer))

\* expandTemplates, top level, step 4: every $${...} replaced at the index it
\* had in the template before any of them was replaced
RECURSIVE ReplaceStale(_, _, _, _)
ReplaceStale(t, ms, reps, k) ==
    IF k > Len(ms) THEN t
    ELSE ReplaceStale(replaceAt(t, ms[k].index, Len(ms[k].outer), reps[k]), ms, reps, k + 1)

\* VariableName
NameChars == {"a", "b", "c"}
IsVariableName(t) == t # <<>> /\ \A i \in 1..Len(t) : t[i] \in NameChars

\* the variable resolver of the caller: the value of the name, Absent (an
\* error) if it has none
Lookup(name) == IF name \in DOMAIN tparams THEN tparams[name] ELSE Absent

Failed == [err |-> TRUE, multi |-> FALSE, items |-> <<>>]
Str(t) == [err |-> FALSE, multi |-> FALSE, items |-> <<t>>]
Strs(ts) == [err |-> FALSE, multi |-> TRUE, items |-> ts]
AnyFailed(rs) == \E k \in 1..Len(rs) : rs[k].err

\* ss: '$${' + variableListJoin(values) + '}'
ss(ts) == <<"$", "$", "{">> \o variableListJoin(ts) \o <<"}">>

\* "Subtemplate contains more than one multi-value variable"
MoreThanOneNever(ms) == FALSE
MoreThanOne(ms) == Len(ms) > 1

RECURSIVE expandTemplates(_, _)

\* expandTemplates called on every text of a list
ExpandAll(ts, inSubtemplate) ==
    [k \in 1..Len(ts) |-> expandTemplates(ts[k], inSubtemplate)]

\* expandMultivalues: every value expanded as a sub-template; lists join
\* through uniq, strings are appended
RECURSIVE AppendValues(_, _, _)
AppendValues(xs, k, acc) ==
    IF k > Len(xs) THEN Strs(acc)
    ELSE IF xs[k].err THEN Failed
    ELSE IF xs[k].multi THEN AppendValues(xs, k + 1, Uniq(acc \o xs[k].items))
    ELSE AppendValues(xs, k + 1, Append(acc, xs[k].items[1]))

expandMultivalues(xs) == AppendValues(ExpandAll(xs, TRUE), 1, <<>>)

\* getMultivalues: the values of a variable name or of a list
getMultivalues(inner) ==
    LET Variable(v) ==
            IF ~Truthy(v) THEN Failed
            ELSE expandMultivalues(IF v.multi THEN v.items ELSE <<v.items[1]>>)
        ListOf(l) == IF l.ok THEN expandMultivalues(l.values) ELSE Failed
    IN  IF IsVariableName(inner) THEN Variable(Lookup(inner))
        ELSE ListOf(variableListParse(inner))

\* expandTemplates, step 4: the multi-value variables $${name} of the text
\* left by steps 1 to 3
ExpandMulti(t3, inSubtemplate) ==
    LET m4 == Matches(t3, 1, "var")
        p4 == SelectSeq(m4, LAMBDA m : m.left = 3)
        \* in a sub-template: the template once for every value of g
        Repeated(g) ==
            LET x4 == ExpandAll([j \in 1..Len(g.items) |->
                                    replaceAt(t3, p4[1].index, Len(p4[1].outer), g.items[j])],
                                TRUE)
            IN  IF g.err \/ AnyFailed(x4) THEN Failed
                ELSE Strs([j \in 1..Len(x4) |-> Joint(x4[j])])
        \* at top level: the values g4 of every occurrence expanded and joined
        Joined(g4) ==
            LET y4 == ExpandAll(Flatten([k \in 1..Len(p4) |-> g4[k].items]), FALSE)
                From(k) == Len(Flatten([i \in 1..(k - 1) |-> g4[i].items]))
            IN  IF AnyFailed(g4) \/ AnyFailed(y4) THEN Failed
                ELSE Str(ReplaceStale(t3, p4,
                           [k \in 1..Len(p4) |->
                               SpaceJoin([j \in 1..Len(g4[k].items) |-> Joint(y4[From(k) + j])])],
                           1))
    IN  IF Unbalanced(m4) THEN Failed
        ELSE IF p4 = <<>> THEN Str(t3)
        ELSE IF inSubtemplate /\ MoreThanOne(p4) THEN Failed
        ELSE IF inSubtemplate THEN Repeated(getMultivalues(p4[1].inner))
        ELSE Joined([k \in 1..Len(p4) |-> getMultivalues(p4[k].inner)])

\* expandTemplates, step 3: the single variables ${name} of the text left by
\* step 1; $${...} is left as it is
ExpandSingle(t1, inSubtemplate) ==
    LET p3 == Matches(t1, 1, "var")
        Known(k) == p3[k].left # 3 /\ Lookup(p3[k].inner).def
        e3 == ExpandAll([k \in 1..Len(p3) |->
                            IF Known(k) THEN Joint(Lookup(p3[k].inner)) ELSE <<>>],
                        inSubtemplate)
        s3 == [k \in 1..Len(p3) |->
                  IF p3[k].left = 3 THEN Str(p3[k].outer)
                  ELSE IF ~Known(k) THEN Failed
                  ELSE e3[k]]
        r3 == [k \in 1..Len(p3) |->
                  IF p3[k].left = 3 THEN p3[k].outer
                  ELSE IF inSubtemplate /\ s3[k].multi THEN ss(s3[k].items)
                  ELSE Joint(s3[k])]
    IN  IF Unbalanced(p3) \/ AnyFailed(s3) THEN Failed
        ELSE ExpandMulti(ReplaceFrom(t1, p3, r3, 1, 0), inSubtemplate)

\* expandTemplates: step 1, the sub-templates (), then steps 3 and 4; step 2,
\* the path sub-templates [], has no part: the templates drawn here hold no
\* brackets
expandTemplates(t, inSubtemplate) ==
    LET p1 == Matches(t, 1, "paren")
        s1 == ExpandAll([k \in 1..Len(p1) |-> p1[k].inner], TRUE)
    IN  IF Unbalanced(p1) \/ AnyFailed(s1) THEN Failed
        ELSE ExpandSingle(ReplaceFrom(t, p1, [k \in 1..Len(p1) |-> Joint(s1[k])], 1, 0),
                          inSubtemplate)

NoText == <<>>
NoTextParams == <<>>

\* expandTemplate: the template expanded at top level, joined and unescaped
expandTemplate(t) ==
    LET Result(x) == IF x.err THEN [err |-> TRUE, text |-> <<>>]
                     ELSE [err |-> FALSE, text |-> unescapeTemplateText(Joint(x))]
    IN  Result(expandTemplates(t, FALSE))

\* The templates drawn as input: up to MaxPieces pieces, each a text, ${name}
\* or $${name}, the whole in parentheses (a sub-template) or not
MaxPieces == 3
TemplateNames == {"a", "b"}
Pieces == {[kind |-> "text", text |-> <<"-">>], [kind |-> "text", text |-> <<" ">>]}
          \cup {[kind |-> "single", text |-> <<n>>] : n \in TemplateNames}
          \cup {[kind |-> "multi", text |-> <<n>>] : n \in TemplateNames}

RenderPiece(p) ==
    IF p.kind = "text" THEN p.text
    ELSE IF p.kind = "single" THEN <<"$", "{">> \o p.text \o <<"}">>
    ELSE <<"$", "$", "{">> \o p.text \o <<"}">>

Render(tpl) ==
    LET body == Flatten([k \in 1..Len(tpl.pieces) |-> RenderPiece(tpl.pieces[k])])
    IN  IF tpl.sub THEN <<"(">> \o body \o <<")">> ELSE body

\* the values the resolver gives a name: a string, or a list of strings
TemplateValues == {One(<<"x">>), One(<<"x", "x", "x", "x", "x">>),
                   Many(<< <<"x">> >>), Many(<< <<"x">>, <<"y", "y">> >>)}

ExpandInit ==
    /\ tfn = "none"
    /\ tin \in [pieces : UNION {[1..n -> Pieces] : n \in 1..MaxPieces}, sub : BOOLEAN]
    /\ tparams \in [{<<n>> : n \in TemplateNames} -> TemplateValues]
    /\ tout = NoText

\* expandTemplate(workspaceRoot, template, variableResolver)
Expand ==
    /\ tfn = "none"
    /\ tfn' = "expand"
    /\ tout' = expandTemplate(Render(tin))
    /\ UNCHANGED <<tin, tparams>>

\* the characters the inputs are made of
ListAlphabet == {"a", QT, BS, ",", " "}
TextAlphabet == Special \cup {"a", QT}

TextIdle ==
    /\ tfn = "none"
    /\ tin = NoText
    /\ tparams = NoTextParams
    /\ tout = NoText

ListInit ==
    /\ tfn = "none"
    /\ tin \in UNION {[1..n -> StringsOver(ListAlphabet, MaxStrLen) \ {<<>>}] : n \in 0..MaxListLen}
    /\ tparams = NoTextParams
    /\ tout = NoText

\* variableListParse(variableListJoin(xs))
ListRoundTrip ==
    /\ tfn = "none"
    /\ tfn' = "list"
    /\ tout' = variableListParse(variableListJoin(tin))
    /\ UNCHANGED <<tin, tparams>>

EscapeInit ==
    /\ tfn = "none"
    /\ tin \in StringsOver(TextAlphabet, MaxStrLen)
    /\ tparams = NoTextParams
    /\ tout = NoText

\* unescapeTemplateText(escapeTemplateText(s))
EscapeRoundTrip ==
    /\ tfn = "none"
    /\ tfn' = "escape"
    /\ tout' = unescapeTemplateText(escapeTemplateText(tin))
    /\ UNCHANGED <<tin, tparams>>

\* ------------------------------------------------ the include analyser
\* The workspace: two directories that can be enlisted as include paths and
\* the headers in them.  A path is <<directory, file name>>; directories
\* are relative to the root folder, as enlistFilePaths stores them.
Dirs == {"d0", "d1"}
Headers == {"a.h", "b.h", "c.h"}
DiskFiles == {<<"d0", "a.h">>, <<"d0", "b.h">>, <<"d1", "c.h">>}

\* the files getPaths is called for: those on disk and one that is missing
Seeds == DiskFiles \cup {<<"d1", "a.h">>}

\* the workspaces: what getIncludedFiles reads from every file on disk, no
\* header named twice in a file and at most MaxIncludes #include directives
\* in all the files
Workspaces ==
    LET IncludeLists ==
            {s \in UNION {[1..n -> Headers] : n \in 0..MaxIncludes} :
                \A i, j \in DOMAIN s : s[i] = s[j] => i = j}
    IN {w \in [DiskFiles -> IncludeLists] :
          Len(w[<<"d0", "a.h">>]) + Len(w[<<"d0", "b.h">>]) + Len(w[<<"d1", "c.h">>])
              <= MaxIncludes}

\* the values of _fileRequiredPaths: no entry, null, a Set of include paths
Unseen == [k |-> "unseen", s |-> {}]
Missing == [k |-> "null", s |-> {}]
PathSet(s) == [k |-> "set", s |-> s]

\* the analyser after its constructor: _fileLocations is undefined
NewAnalyzer ==
    [fileLocations |-> [def |-> FALSE, files |-> {}],
     includePaths |-> <<>>,
     fileRequiredPaths |-> [p \in Dirs \X Headers |-> Unseen],
     fileDependencies |-> [p \in Dirs \X Headers |-> {}],
     scans |-> [p \in Dirs \X Headers |-> 0]]

\* the observation of the calls of getPaths
NoList == [k |-> "none", v |-> <<>>]
List(v) == [k |-> "list", v |-> v]
NoCall ==
    [seed |-> <<"d0", "a.h">>, ret |-> NoList, gets |-> 0,
     first |-> [p \in Dirs \X Headers |-> NoList], late |-> FALSE]

\* the loop of enlistFilePaths over its argument, enlistFiles included
RECURSIVE enlistFilePaths(_, _)
enlistFilePaths(an, ps) ==
    IF ps = <<>> THEN an
    ELSE LET p == Head(ps)
             enlisted == \E i \in DOMAIN an.includePaths : an.includePaths[i] = p
             an1 == IF enlisted THEN an
                    ELSE [an EXCEPT
                            !.fileLocations.files = @ \cup {f \in DiskFiles : f[1] = p},
                            !.includePaths = Append(@, p)]
         IN enlistFilePaths(an1, Tail(ps))

Enlist(ps) ==
    /\ analyzer' = enlistFilePaths([analyzer EXCEPT !.fileLocations.def = TRUE], ps)
    /\ acall' = [acall EXCEPT
                   !.late = @ \/ (acall.gets > 0 /\ analyzer'.includePaths # analyzer.includePaths)]
    /\ UNCHANGED includeFiles

\* findInclFile: "local" for undefined, "null" for null, else the include path
findInclFile(an, location, searchedFile) ==
    LET paths == {f \in an.fileLocations.files : f[2] = searchedFile}
        hits == {i \in DOMAIN an.includePaths : <<an.includePaths[i], searchedFile>> \in paths}
    IN IF paths = {} THEN "null"
       ELSE IF location \in paths THEN "local"
       ELSE IF hits = {} THEN "null"
       ELSE an.includePaths[CHOOSE i \in hits : \A j \in hits : i <= j]

\* getIncludedFiles: the #include lines of a file; nothing is read from a
\* file that is not there
getIncludedFiles(filePath) ==
    IF filePath \in DiskFiles THEN includeFiles[filePath] ELSE <<>>

\* requiredPaths.add: the Set is the one _fileRequiredPaths holds for the
\* file unless that entry was overwritten with null in the meantime
Add(an, filePath, req) ==
    IF an.fileRequiredPaths[filePath].k = "set"
    THEN [an EXCEPT !.fileRequiredPaths[filePath] = PathSet(req)]
    ELSE an

\* _getPaths and its loop over the included files: the analyser after the
\* call and the value returned; scans counts the calls of getIncludedFiles
\* "if (requiredPaths || requiredPaths === null)": file already processed
ProcessedUnlessNull(requiredPaths) == requiredPaths.k = "set"
Processed(requiredPaths) == requiredPaths.k # "unseen"

RECURSIVE getPathsPrivate(_, _), IncludeLoop(_, _, _, _, _)
getPathsPrivate(an, filePath) ==
    IF Processed(an.fileRequiredPaths[filePath])
    THEN [an |-> an, ret |-> an.fileRequiredPaths[filePath]]
    ELSE IncludeLoop([an EXCEPT !.fileRequiredPaths[filePath] = PathSet({}),
                                !.scans[filePath] = @ + 1],
                     filePath, getIncludedFiles(filePath), 1, {})

IncludeLoop(an, filePath, incs, i, req) ==
    IF i > Len(incs) THEN [an |-> an, ret |-> PathSet(req)]
    ELSE
      LET here == <<filePath[1], incs[i]>>
          includePath == findInclFile(an, here, incs[i])
      IN IF includePath = "null"
         THEN IncludeLoop([an EXCEPT !.fileRequiredPaths[here] = Missing],
                          filePath, incs, i + 1, req)
         ELSE
           LET locationFilePath == IF includePath = "local" THEN here
                                   ELSE <<includePath, incs[i]>>
               req1 == IF includePath = "local" THEN req ELSE req \cup {includePath}
               an1 == [Add(an, filePath, req1) EXCEPT
                         !.fileDependencies[filePath] = @ \cup {locationFilePath}]
               sub == getPathsPrivate(an1, locationFilePath)
               req2 == IF sub.ret.k = "null" THEN req1 ELSE req1 \cup sub.ret.s
           IN IncludeLoop(Add(sub.an, filePath, req2), filePath, incs, i + 1, req2)

\* getPaths under its mutex.  The builder enlists the include paths of the
\* step right after it constructs the analyser, so _fileLocations is set.
\* Reading a seed file that is not there either fails the call or yields
\* no line, as the runtime has it.
getPaths(filePath) ==
    /\ analyzer.fileLocations.def
    /\ acall.gets < MaxGets
    /\ \E fails \in {b \in BOOLEAN : b => /\ filePath \notin DiskFiles
                                          /\ analyzer.fileRequiredPaths[filePath].k = "unseen"} :
         LET r == getPathsPrivate(analyzer, filePath)
             In(p) == p \in r.ret.s
             ret == IF fails THEN NoList
                    ELSE IF r.ret.k = "null" THEN List(<<>>)
                    ELSE List(SelectSeq(r.an.includePaths, In))
         IN /\ analyzer' = r.an
            /\ acall' = [acall EXCEPT
                           !.seed = filePath,
                           !.ret = ret,
                           !.gets = @ + 1,
                           !.first[filePath] = IF @.k = "none" THEN ret ELSE @]
    /\ UNCHANGED includeFiles

AnalyzerIdle ==
    /\ includeFiles = [f \in DiskFiles |-> <<>>]
    /\ analyzer = NewAnalyzer
    /\ acall = NoCall

AnalyzeInit ==
    /\ includeFiles \in Workspaces
    /\ analyzer = NewAnalyzer
    /\ acall = NoCall

\* ------------------------------------------------ execCmd on its own
\* execCmd(command, options, token) called by n callers, the token signalled or
\* not when the first call is made; pc "analyze" is a caller about to call
ExecInit ==
    /\ options \in [maxTasks : {MaxTasksBound}, continueOnError : BOOLEAN, forceRebuild : {FALSE}]
    /\ build = "step"
    /\ stepNo = 1
    /\ \E n \in 1..NumFiles :
        /\ step = [kind |-> "file", outputFile |-> FALSE, trim |-> TRUE, n |-> n]
        /\ pc = [f \in Files |-> IF f <= Grants(n) THEN "analyze"
                                 ELSE IF f <= n THEN "wait" ELSE "idle"]
        /\ semCount = options.maxTasks - Grants(n)
        /\ semQ = [i \in 1..(n - Grants(n)) |-> Grants(n) + i]
    /\ signaled \in BOOLEAN
    /\ fin = [f \in Files |-> "none"]
    /\ proc = [f \in Files |-> "none"]
    /\ out = [f \in Files |-> "unknown"]
    /\ filesProcessed = 0
    /\ filesSkipped = 0
    /\ errorsEncountered = 0
    /\ result = NoResult
    /\ totalErrorsEncountered = 0
    /\ cmdFailed = FALSE
    /\ spawnedAfterFail = 0
    /\ spawnedAfterSignal = 0
    /\ earlierPending = FALSE

\* the call of execCmd, whatever the state of the token
ExecCmd(f) ==
    /\ pc[f] = "analyze"
    /\ Spawn(f)
    /\ UNCHANGED <<options, stepNo, step, out, filesProcessed, filesSkipped,
                   errorsEncountered, result, totalErrorsEncountered, cmdFailed, earlierPending>>

\* ------------------------------------------- the cache and the modes
\* ExpandPathsOption, and what globSync finds for the one pattern there is
ExpandPathsOption == {"filesOnly", "directoriesOnly", "noExpand", "expandAll"}
GlobPattern == "src/*"
GlobFiles == <<"src/a.c">>
GlobDirs == <<"src/inc">>
ModeNames == <<"x", "y", "z">>

expandGlob(pattern, expandOption) ==
    IF expandOption = "noExpand" THEN <<pattern>>
    ELSE IF expandOption = "directoriesOnly" THEN GlobDirs
    ELSE IF expandOption = "filesOnly" THEN GlobFiles
    ELSE GlobFiles \o GlobDirs

hasMagic(pattern) == pattern = GlobPattern

\* expandMultivalues over values that hold no template: a glob expression is
\* expanded, any other value is kept
RECURSIVE GlobValues(_, _)
GlobValues(values, expandOption) ==
    IF values = <<>> THEN <<>>
    ELSE (IF hasMagic(Head(values)) THEN expandGlob(Head(values), expandOption)
          ELSE <<Head(values)>>) \o GlobValues(Tail(values), expandOption)

\* A variable is defined as plain text, as "$${text}" with a one-item list
\* literal, or as "$${name}" with the name of a variable defined before it
TextDef(s) == [kind |-> "text", text |-> s]
ListDef(s) == [kind |-> "list", text |-> s]
RefDef(n) == [kind |-> "ref", text |-> n]
ModeDefs ==
    LET Index(n) == CHOOSE i \in DOMAIN ModeNames : ModeNames[i] = n
        Allowed(n) == {TextDef(s) : s \in {"lib.h", GlobPattern}}
                        \cup {ListDef(s) : s \in {"lib.h", GlobPattern}}
                        \cup {RefDef(ModeNames[i]) : i \in 1..(Index(n) - 1)}
    IN {d \in [{ModeNames[i] : i \in DOMAIN ModeNames} ->
                 UNION {Allowed(ModeNames[i]) : i \in DOMAIN ModeNames}] :
          \A i \in DOMAIN ModeNames : d[ModeNames[i]] \in Allowed(ModeNames[i])}

NoValue == [def |-> FALSE, value |-> <<>>]
Value(v) == [def |-> TRUE, value |-> v]
NoModeReturn == [name |-> "", expandOption |-> "expandAll", value |-> <<>>, cached |-> FALSE]

\* resolveVariable with its cache: the cache after the call and the value
RECURSIVE resolveVariable(_, _, _)
resolveVariable(cache, variableName, expandOption) ==
    IF cache[variableName].def
    THEN [cache |-> cache, value |-> cache[variableName].value]
    ELSE LET d == gdefs[variableName]
             inner == IF d.kind = "ref" THEN resolveVariable(cache, d.text, expandOption)
                      ELSE [cache |-> cache, value |-> <<d.text>>]
             value == IF d.kind = "text" THEN <<d.text>>
                      ELSE GlobValues(inner.value, expandOption)
         IN [cache |-> [inner.cache EXCEPT ![variableName] = Value(value)], value |-> value]

ModesIdle ==
    /\ gdefs = [n \in {ModeNames[i] : i \in DOMAIN ModeNames} |-> TextDef("lib.h")]
    /\ gcache = [n \in {ModeNames[i] : i \in DOMAIN ModeNames} |-> NoValue]
    /\ gret = NoModeReturn

ModesInit ==
    /\ gdefs \in ModeDefs
    /\ gcache = [n \in {ModeNames[i] : i \in DOMAIN ModeNames} |-> NoValue]
    /\ gret = NoModeReturn

\* a call of the resolver closure, (name, expandOption) => resolveVariable(...,
\* name, variables, expandOption, cmdVariableValues)
ResolveCall ==
    \E i \in DOMAIN ModeNames, expandOption \in ExpandPathsOption :
        LET r == resolveVariable(gcache, ModeNames[i], expandOption)
        IN  /\ gcache' = r.cache
            /\ gret' = [name |-> ModeNames[i], expandOption |-> expandOption,
                        value |-> r.value, cached |-> gcache[ModeNames[i]].def]
            /\ UNCHANGED gdefs

\* ------------------------------------------------ the mutexes
\* the concurrent callers, and the calls of getPaths that getIncludes makes
\* for one file task
NumCallers == 3
MaxGetCalls == 2
Callers == 1..NumCallers
OutDirs == {"out/a", "out/b"}

FreeMutex == [locked |-> FALSE, queue |-> <<>>]
NoCaller == [pc |-> "idle", fn |-> "none", arg |-> 0, dir |-> "none"]
NoDir == [exists |-> FALSE, calls |-> 0, failures |-> 0]

ConcIdle ==
    /\ mutex = FreeMutex
    /\ caller = [t \in Callers |-> NoCaller]
    /\ disk = [d \in OutDirs |-> NoDir]

\* AsyncMutex.lock() of caller t: taken at once when the mutex is free, else
\* the caller is queued
LockAlways(m, t) == [m EXCEPT !.locked = TRUE]
Lock(m, t) ==
    IF m.locked THEN [m EXCEPT !.queue = Append(@, t)] ELSE [m EXCEPT !.locked = TRUE]

\* AsyncMutex.unlock(): the mutex goes to the first queued caller, if any
UnlockKeeps(m) == m
Unlock(m) ==
    IF m.queue = <<>> THEN [m EXCEPT !.locked = FALSE] ELSE [m EXCEPT !.queue = Tail(@)]

Waiting(m, t) == \E i \in 1..Len(m.queue) : m.queue[i] = t

\* "await this._mutex.lock();" by caller t, about to run function fn
Enter(t, fn, arg, dir) ==
    LET m == Lock(mutex, t)
    IN  /\ mutex' = m
        /\ caller' = [caller EXCEPT ![t] = [pc |-> IF Waiting(m, t) THEN "wait" ELSE "in",
                                            fn |-> fn, arg |-> arg, dir |-> dir]]

\* "finally { this._mutex.unlock(); }" of caller t, which goes on at pc after;
\* the caller that gets the mutex resumes behind its lock()
Leave(t, after) ==
    LET m == Unlock(mutex)
    IN  /\ mutex' = m
        /\ caller' = [c \in Callers |->
                        IF c = t THEN [caller[c] EXCEPT !.pc = after]
                        ELSE IF Waiting(mutex, c) /\ ~Waiting(m, c)
                             THEN [caller[c] EXCEPT !.pc = "in"]
                             ELSE caller[c]]

\* A file task of a step that trims the include paths calls
\* analyzer.enlistFilePaths(cmdIncludePaths)
TaskEnlist(t) ==
    /\ caller[t].pc = "idle"
    /\ caller[t].fn = "none"
    /\ \E g \in 1..MaxGetCalls : Enter(t, "enlistFilePaths", g, "none")
    /\ UNCHANGED disk

\* getIncludes calls analyzer.getPaths for the file and for every forcedInclude
\* file
TaskGetPaths(t) ==
    /\ caller[t].pc = "idle"
    /\ caller[t].fn \in {"enlistFilePaths", "getPaths"}
    /\ caller[t].arg > 0
    /\ Enter(t, "getPaths", caller[t].arg - 1, "none")
    /\ UNCHANGED disk

\* inside enlistFilePaths or getPaths, the caller holding the mutex over every
\* await of the body: the last awaited glob or file reading has answered and
\* the function returns, or one of them has raised an error
Scan(t) ==
    /\ caller[t].pc = "in"
    /\ caller[t].fn \in {"enlistFilePaths", "getPaths"}
    /\ \E ok \in BOOLEAN :
         IF ok
         THEN Leave(t, IF caller[t].fn = "getPaths" /\ caller[t].arg = 0 THEN "done" ELSE "idle")
         ELSE Leave(t, "failed")
    /\ UNCHANGED disk

\* createOutputDirectory(rootPath, outputDirectoryPath): the first
\* checkDirectoryExists is called
CreateCall(t) ==
    /\ caller[t].pc = "idle"
    /\ caller[t].fn = "none"
    /\ \E d \in OutDirs :
         caller' = [caller EXCEPT ![t] = [NoCaller EXCEPT !.pc = "check",
                                                          !.fn = "createOutputDirectory",
                                                          !.dir = d]]
    /\ UNCHANGED <<mutex, disk>>

\* the first checkDirectoryExists has answered: return, or _mutex.lock()
CreateChecked(t) ==
    /\ caller[t].pc = "check"
    /\ IF disk[caller[t].dir].exists
       THEN /\ caller' = [caller EXCEPT ![t].pc = "done"]
            /\ UNCHANGED mutex
       ELSE Enter(t, "createOutputDirectory", 0, caller[t].dir)
    /\ UNCHANGED disk

\* under the mutex the second checkDirectoryExists has answered: unlock and
\* return, or makeDirectory is called
CreateRechecked(t) ==
    /\ caller[t].pc = "in"
    /\ caller[t].fn = "createOutputDirectory"
    /\ IF disk[caller[t].dir].exists
       THEN /\ Leave(t, "done")
            /\ UNCHANGED disk
       ELSE /\ caller' = [caller EXCEPT ![t].pc = "mkdir"]
            /\ disk' = [disk EXCEPT ![caller[t].dir].calls = @ + 1]
            /\ UNCHANGED mutex

\* makeDirectory has answered (fs.mkdir may fail): unlock in the finally block
CreateMade(t) ==
    /\ caller[t].pc = "mkdir"
    /\ \E ok \in BOOLEAN :
         IF ok
         THEN /\ disk' = [disk EXCEPT ![caller[t].dir].exists = TRUE]
              /\ Leave(t, "done")
         ELSE /\ disk' = [disk EXCEPT ![caller[t].dir].failures = @ + 1]
              /\ Leave(t, "failed")

\* ------------------------------------------------------ specifications
\* the build: runBuild over its steps
Init == BuildInit /\ ResolverIdle /\ TextIdle /\ AnalyzerIdle /\ ConcIdle /\ ModesIdle
Next ==
    \/ StartFileStep /\ UNCHANGED <<rvars, tvars, avars, cvars, gvars>>
    \/ StartDirStep /\ UNCHANGED <<rvars, tvars, avars, cvars, gvars>>
    \/ StartOnceStep /\ UNCHANGED <<rvars, tvars, avars, cvars, gvars>>
    \/ \E f \in Files : CheckInput(f) /\ UNCHANGED <<rvars, tvars, avars, cvars, gvars>>
    \/ \E f \in Files : CheckOutput(f) /\ UNCHANGED <<rvars, tvars, avars, cvars, gvars>>
    \/ \E f \in Files : MkDir(f) /\ UNCHANGED <<rvars, tvars, avars, cvars, gvars>>
    \/ \E f \in Files : Analyze(f) /\ UNCHANGED <<rvars, tvars, avars, cvars, gvars>>
    \/ \E f \in Files : ProcExit(f) /\ UNCHANGED <<rvars, tvars, avars, cvars, gvars>>
    \/ \E f \in Files : ProcDie(f) /\ UNCHANGED <<rvars, tvars, avars, cvars, gvars>>
    \/ \E d \in Files : DirCheck(d) /\ UNCHANGED <<rvars, tvars, avars, cvars, gvars>>
    \/ \E d \in Files : DirExit(d) /\ UNCHANGED <<rvars, tvars, avars, cvars, gvars>>
    \/ OnceExit /\ UNCHANGED <<rvars, tvars, avars, cvars, gvars>>
    \/ StepReturn /\ UNCHANGED <<rvars, tvars, avars, cvars, gvars>>
    \/ ExclusiveOptions /\ UNCHANGED <<rvars, tvars, avars, cvars, gvars>>
Spec == Init /\ [][Next]_vars

\* The callbacks of the file system and of the analyser are delivered, and every
\* child process that was started ends: one step of a file task that can be
\* taken is taken.
TaskStep(f) ==
    /\ \/ CheckInput(f)
       \/ CheckOutput(f)
       \/ MkDir(f)
       \/ Analyze(f)
       \/ ProcExit(f)
       \/ ProcDie(f)
    /\ UNCHANGED <<rvars, tvars, avars, cvars, gvars>>
SpecFair == Spec /\ \A f \in Files : WF_vars(TaskStep(f))

BuildIdle ==
    /\ BuildInit
    /\ options = [maxTasks |-> 1, continueOnError |-> FALSE, forceRebuild |-> FALSE]

\* the calls of resolveVariable on the dictionaries of a step or of a file task
InitResolve == ResolveInit /\ BuildIdle /\ TextIdle /\ AnalyzerIdle /\ ConcIdle /\ ModesIdle
NextResolve ==
    \/ RStep /\ UNCHANGED <<bvars, tvars, avars, cvars, gvars>>
    \/ RFinish /\ UNCHANGED <<bvars, tvars, avars, cvars, gvars>>
    \/ RCall /\ UNCHANGED <<bvars, tvars, avars, cvars, gvars>>
SpecResolve == InitResolve /\ [][NextResolve]_vars

\* variableListJoin and variableListParse on a list of strings
InitList == ListInit /\ BuildIdle /\ ResolverIdle /\ AnalyzerIdle /\ ConcIdle /\ ModesIdle
NextList == ListRoundTrip /\ UNCHANGED <<bvars, rvars, avars, cvars, gvars>>
SpecList == InitList /\ [][NextList]_vars

\* escapeTemplateText and unescapeTemplateText on a string
InitEscape == EscapeInit /\ BuildIdle /\ ResolverIdle /\ AnalyzerIdle /\ ConcIdle /\ ModesIdle
NextEscape == EscapeRoundTrip /\ UNCHANGED <<bvars, rvars, avars, cvars, gvars>>
SpecEscape == InitEscape /\ [][NextEscape]_vars

\* expandTemplate on a template and the values of its variables
InitExpand == ExpandInit /\ BuildIdle /\ ResolverIdle /\ AnalyzerIdle /\ ConcIdle /\ ModesIdle
NextExpand == Expand /\ UNCHANGED <<bvars, rvars, avars, cvars, gvars>>
SpecExpand == InitExpand /\ [][NextExpand]_vars

\* enlistFilePaths and getPaths on one analyser over a workspace
InitAnalyze == AnalyzeInit /\ BuildIdle /\ ResolverIdle /\ TextIdle /\ ConcIdle /\ ModesIdle
NextAnalyze ==
    \/ \E ps \in {<<>>} \cup {<<d>> : d \in Dirs} :
          Enlist(ps) /\ UNCHANGED <<bvars, rvars, tvars, cvars, gvars>>
    \/ \E p \in Seeds : getPaths(p) /\ UNCHANGED <<bvars, rvars, tvars, cvars, gvars>>
SpecAnalyze == InitAnalyze /\ [][NextAnalyze]_vars

\* execCmd called directly
InitExec == ExecInit /\ ResolverIdle /\ TextIdle /\ AnalyzerIdle /\ ConcIdle /\ ModesIdle
NextExec ==
    \/ \E f \in Files : ExecCmd(f) /\ UNCHANGED <<rvars, tvars, avars, cvars, gvars>>
    \/ \E f \in Files : CheckInput(f) /\ UNCHANGED <<rvars, tvars, avars, cvars, gvars>>
    \/ \E f \in Files : ProcExit(f) /\ UNCHANGED <<rvars, tvars, avars, cvars, gvars>>
    \/ \E f \in Files : ProcDie(f) /\ UNCHANGED <<rvars, tvars, avars, cvars, gvars>>
SpecExec == InitExec /\ [][NextExec]_vars

\* one resolver closure called with several expansion modes
InitModes == ModesInit /\ ConcIdle /\ BuildIdle /\ ResolverIdle /\ TextIdle /\ AnalyzerIdle
NextModes == ResolveCall /\ UNCHANGED <<bvars, rvars, tvars, avars, cvars>>
SpecModes == InitModes /\ [][NextModes]_vars

\* the file tasks of one step calling the analyser concurrently
InitConc == ConcIdle /\ ModesIdle /\ BuildIdle /\ ResolverIdle /\ TextIdle /\ AnalyzerIdle
NextAnalyzerMutex ==
    \/ \E t \in Callers : TaskEnlist(t) /\ UNCHANGED <<bvars, rvars, tvars, avars, gvars>>
    \/ \E t \in Callers : TaskGetPaths(t) /\ UNCHANGED <<bvars, rvars, tvars, avars, gvars>>
    \/ \E t \in Callers : Scan(t) /\ UNCHANGED <<bvars, rvars, tvars, avars, gvars>>
SpecAnalyzerMutex == InitConc /\ [][NextAnalyzerMutex]_vars

\* the file tasks of one step calling createOutputDirectory concurrently
NextCreate ==
    \/ \E t \in Callers : CreateCall(t) /\ UNCHANGED <<bvars, rvars, tvars, avars, gvars>>
    \/ \E t \in Callers : CreateChecked(t) /\ UNCHANGED <<bvars, rvars, tvars, avars, gvars>>
    \/ \E t \in Callers : CreateRechecked(t) /\ UNCHANGED <<bvars, rvars, tvars, avars, gvars>>
    \/ \E t \in Callers : CreateMade(t) /\ UNCHANGED <<bvars, rvars, tvars, avars, gvars>>
SpecCreate == InitConc /\ [][NextCreate]_vars

\* ================================================================ claims
FileStep == step.kind = "file"

\* C1: within one per-file step the file tasks that hold a slot of the semaphore
\* are never more than maxTasks, and neither are the live child processes
C1_AtMostMaxTasks ==
    FileStep => /\ Cardinality(Holders) <= options.maxTasks
                /\ Cardinality(Alive) <= options.maxTasks

C1_Witness ==
    /\ FileStep
    /\ options.maxTasks = 2
    /\ Cardinality({f \in Files : proc[f] = "running"}) = 2
    /\ Len(semQ) >= 1

\* C2 (as claimed): with continueOnError=false, once a command of a per-file
\* step has failed the token is signalled, runBuildStep does not throw, and when
\* it has returned every task has finished and errorsEncountered >= 1
C2_FailureReturnsPartial ==
    (FileStep /\ ~options.continueOnError /\ cmdFailed) =>
        /\ signaled
        /\ build # "failed"
        /\ (result.status = "returned" => AllTasksDone /\ result.errorsEncountered >= 1)

\* C3: with continueOnError=false, the subprocesses a per-file step starts
\* after a command of it has failed are at most maxTasks - 1
C3_SpawnsAfterFailure ==
    (FileStep /\ ~options.continueOnError) => spawnedAfterFail <= options.maxTasks - 1

C3_Witness ==
    /\ FileStep
    /\ ~options.continueOnError
    /\ cmdFailed
    /\ options.maxTasks = 2
    /\ \E f \in Files : fin[f] = "cancelled" /\ proc[f] = "killed"
    /\ \E f \in Files : fin[f] = "cancelled" /\ proc[f] = "none"

\* C4 (as claimed): with continueOnError=true an error of a file task, a missing
\* input file as much as a failed command, is counted in errorsEncountered and
\* neither cancels the step nor ends the build
C4_ErrorsCountedNotCancelling ==
    (FileStep /\ options.continueOnError) =>
        /\ ~signaled
        /\ build # "failed"
        /\ errorsEncountered = Cardinality({f \in Files : fin[f] \in {"error", "threw"}})

\* C5: the steps run one at a time in the declared order: a step starts only
\* when every task of the earlier steps has finished, and with
\* continueOnError=false no step runs after one that reported errors
C5_StepsInvariant ==
    /\ ~earlierPending
    /\ (build = "step" /\ ~options.continueOnError) => totalErrorsEncountered = 0

C5_StepsInOrder ==
    /\ []C5_StepsInvariant
    /\ [][stepNo' \in {stepNo, stepNo + 1}]_vars

C5_Witness ==
    /\ stepNo = 2
    /\ build = "step"
    /\ options.continueOnError
    /\ totalErrorsEncountered > 0
    /\ \E f \in Files : proc[f] = "running"

\* C6: in a per-file step with outputFile, a file whose output is strictly newer
\* than its input (forceRebuild off) adds exactly 1 to filesSkipped and gets no
\* subprocess; with the output missing, older or of equal mtime, or with
\* forceRebuild on, the command of the file is run
C6_IncrementalSkip ==
    FileStep =>
        /\ filesSkipped = Cardinality({f \in Files : fin[f] = "skipped"})
        /\ \A f \in Files :
            /\ fin[f] = "skipped" =>
                 step.outputFile /\ out[f] = "newer" /\ ~options.forceRebuild /\ proc[f] = "none"
            /\ (out[f] = "newer" /\ ~options.forceRebuild) => fin[f] = "skipped"
            /\ ((out[f] = "notNewer" \/ (out[f] # "unknown" /\ options.forceRebuild))
                  /\ pc[f] = "done" /\ fin[f] \notin {"cancelled", "threw"})
                 => (proc[f] # "none" /\ fin[f] \in {"processed", "error"})

C6_Witness ==
    /\ FileStep
    /\ \E f \in Files : fin[f] = "skipped"
    /\ \E f \in Files : out[f] = "notNewer" /\ fin[f] = "processed" /\ proc[f] = "exited"
    /\ filesSkipped = 1

\* C7: a signalled token stays signalled for the rest of its step, no
\* subprocess is started while it is signalled, and the subprocesses running
\* when it is signalled are killed
C7_SignalledInvariant ==
    /\ spawnedAfterSignal = 0
    /\ signaled => \A f \in Files : proc[f] # "running"

C7_SignalledIsTerminal ==
    /\ []C7_SignalledInvariant
    /\ [][(signaled /\ stepNo' = stepNo) => signaled']_vars

C7_Witness ==
    /\ FileStep
    /\ signaled
    /\ Cardinality({f \in Files : proc[f] = "killed"}) = 1
    /\ \E f \in Files : pc[f] \in {"acquired", "stat", "mkdir", "analyze"}


\* C8: resolving a name that refers to itself with no outer value, or that lies
\* on a cycle of references, ends in a resolution error: no name is ever being
\* resolved twice at once, and the call stack is never exhausted
C8_CycleRaisesError ==
    /\ \A i \in 1..Len(rstack) : \A j \in 1..Len(rstack) :
           i # j => rstack[i].name # rstack[j].name
    /\ rstatus # "overflow"

\* C9: a reference to the name being resolved yields the value the outer
\* dictionaries have given it, and is an error exactly when they gave none
C9_SelfReferenceYieldsOuter ==
    selfRef.seen => (selfRef.yielded <=> selfRef.hadOuter)

\* C10: a name that the command line defines resolves to the command line's
\* value whichever other dictionary defines it too, the dictionary of a file
\* task's command included
C10_CommandLineWins ==
    (/\ rstatus = "returned"
     /\ Len(rscopes) >= 3
     /\ rscopes[3][rquery].def)
        => rresult = One(rscopes[3][rquery].items[1].text)

LastDef == IF \E k \in 1..Len(rscopes) : rscopes[k][rquery].def
           THEN CHOOSE k \in 1..Len(rscopes) :
                    /\ rscopes[k][rquery].def
                    /\ \A j \in (k + 1)..Len(rscopes) : ~rscopes[j][rquery].def
           ELSE 0

\* the name asked for has resolved, and its innermost value is a sequence of
\* literal texts
LiteralSequence ==
    /\ rstatus = "returned"
    /\ LastDef > 0
    /\ rscopes[LastDef][rquery].multi
    /\ \A i \in 1..Len(rscopes[LastDef][rquery].items) :
           rscopes[LastDef][rquery].items[i].kind = "lit"

Literals == [i \in 1..Len(rscopes[LastDef][rquery].items) |-> rscopes[LastDef][rquery].items[i].text]

FirstAt(xs, x) == CHOOSE i \in 1..Len(xs) : xs[i] = x /\ \A j \in 1..(i - 1) : xs[j] # x

\* C12 (as claimed): a sequence value with repeated elements resolves to the
\* same elements in the same order, repetitions kept
C12_KeepsRepetitions ==
    LiteralSequence => rresult = Many(Literals)

\* C12 (amended): a sequence value resolves to its distinct elements, each at
\* the place of its first occurrence: repetitions are removed while the value
\* is resolved
C12_RemovesRepetitions ==
    LiteralSequence =>
        /\ rresult.multi
        /\ {rresult.items[i] : i \in 1..Len(rresult.items)} = {Literals[i] : i \in 1..Len(Literals)}
        /\ \A i \in 1..Len(rresult.items) : \A j \in 1..Len(rresult.items) :
               i < j => FirstAt(Literals, rresult.items[i]) < FirstAt(Literals, rresult.items[j])

C12_Witness ==
    /\ LiteralSequence
    /\ Literals = <<(<<"x">>), (<<"y">>), (<<"x">>)>>
    /\ rresult = Many(<<(<<"x">>), (<<"y">>)>>)

\* C15 (as claimed): for every list xs of non-empty strings, quotes, commas,
\* blanks and backslashes included, variableListParse(variableListJoin(xs))
\* returns xs and raises no error
C15_ListRoundTrip ==
    tfn = "list" => (tout.ok /\ tout.values = tin)

\* C16: unescapeTemplateText(escapeTemplateText(s)) = s for every string s
C16_EscapeRoundTrip ==
    tfn = "escape" => tout = tin

C16_Witness ==
    /\ tfn = "escape"
    /\ tin = <<BS, "$">>
    /\ escapeTemplateText(tin) = <<BS, BS, BS, "$">>
    /\ tout = tin

Expanded == tfn = "expand"
Occurrences(kind) == {k \in 1..Len(tin.pieces) : tin.pieces[k].kind = kind}
MultiValued(n) == tparams[n].multi /\ Len(tparams[n].items) > 1

IdealPiece(p) == IF p.kind = "text" THEN p.text ELSE Joint(tparams[p.text])
Ideal == Flatten([k \in 1..Len(tin.pieces) |-> IdealPiece(tin.pieces[k])])

\* C14 (as claimed): a top-level template with several $${...} has every
\* occurrence replaced in its place by its values joined with blanks, the text
\* around the occurrences unchanged, whatever the lengths of the replacements
C14_OccurrencesInPlace ==
    (Expanded /\ ~tin.sub) => (~tout.err /\ tout.text = Ideal)

\* the elements of a list
Range(s) == {s[i] : i \in DOMAIN s}

\* getPaths has returned a list for a seed file that exists
ListForSeed == acall.gets > 0 /\ acall.seed \in DiskFiles /\ acall.ret.k = "list"

\* C17: getPaths returns null when the seed file is missing, and returns a
\* list only when the seed file exists.
C17_NullForMissingSeed ==
    acall.gets > 0 /\ acall.seed \notin DiskFiles => acall.ret.k = "null"

\* C18: every repeated call of getPaths for the same file returns the list
\* the first call returned, and the list is the enlisted include paths, in
\* enlistment order, with some of them left out.
C18_SameOrderedList ==
    ListForSeed =>
        /\ acall.ret = acall.first[acall.seed]
        /\ LET In(p) == p \in Range(acall.ret.v)
           IN acall.ret.v = SelectSeq(analyzer.includePaths, In)

\* the files an #include chain from a set of files leads to, each directive
\* looked up as findInclFile looks it up on the enlisted paths
Target(p, n) ==
    LET at == findInclFile(analyzer, <<p[1], n>>, n)
    IN IF at = "null" THEN {}
       ELSE IF at = "local" THEN {<<p[1], n>>}
       ELSE {<<at, n>>}
RECURSIVE Reachable(_)
Reachable(S) ==
    LET T == S \cup UNION {UNION {Target(p, n) : n \in Range(getIncludedFiles(p))} : p \in S}
    IN IF T = S THEN S ELSE Reachable(T)
\* the include paths that supply a header reachable from a file
Supplying(F) ==
    {t[1] : t \in UNION {UNION {Target(p, n) \ {<<p[1], n>>} : n \in Range(getIncludedFiles(p))} :
                            p \in Reachable({F})}}

\* C19: getPaths returns every enlisted include directory that supplies a
\* header reachable from the file through a chain of #include directives,
\* whichever files were analysed before the call (no include path having
\* been enlisted after the first call).
C19_AllSupplyingPaths ==
    ListForSeed /\ ~acall.late => Supplying(acall.seed) \subseteq Range(acall.ret.v)

\* C20: a build step that sets more than one of filePattern, directoryPattern
\* and fileList fails the build before the command of any build step has been
\* executed: when runBuild throws for it, no step has run before it and no
\* child process was started.
C20_FailsBeforeAnyCommand ==
    (build = "failed" /\ step.kind = "invalid") =>
        /\ stepNo = 0
        /\ \A f \in Files : proc[f] = "none"


\* ------------------------------------------------ the command line
\* doTask: exitCode starts at 0 and becomes 1 in the catch block around the
\* task, that is when runBuild threw; process.exit(exitCode) follows
exitCode == IF build = "failed" THEN 1 ELSE 0

\* C21: the process exits with code 1 whenever the build had any failure, a
\* failed command that was only counted in errorsEncountered included, and with
\* code 0 only when nothing failed
C21_ExitOneOnAnyFailure ==
    build \in {"done", "failed"} =>
        (exitCode = 1 <=> (build = "failed" \/ totalErrorsEncountered > 0))


\* C22: a file task that obtains its slot of the semaphore after the token was
\* signalled exits at once: it does not go on to check its input file
C22_PollsAfterAcquire ==
    [][\A f \in Files :
          (step.kind = "file" /\ pc[f] = "wait" /\ signaled') => pc'[f] # "acquired"]_vars


\* C23: when a file task has thrown and runBuildStep has rejected, every file
\* task of the step has finished and released its slot, and no child process
\* of the step is alive
C23_RejectsAfterAllTasks ==
    (FileStep /\ build = "failed") =>
        /\ AllTasksDone
        /\ Holders = {}
        /\ Alive = {}


\* C24: a file task that has acquired a slot releases it exactly once on every
\* exit path: the free slots and the held slots always add up to maxTasks, and
\* a task waits only while no slot is free.  When the callbacks are delivered
\* and the child processes end, every file task of a step finishes.
C24_SlotsConserved ==
    FileStep =>
        /\ semCount + Cardinality(Holders) = options.maxTasks
        /\ semCount >= 0
        /\ {f \in Files : pc[f] = "wait"} = {semQ[i] : i \in 1..Len(semQ)}
        /\ (semQ # <<>> => semCount = 0)
C24_ReleasesOnce ==
    /\ []C24_SlotsConserved
    /\ \A f \in Files : (FileStep /\ pc[f] \in SlotPcs \cup {"wait"}) ~> (pc[f] = "done")
C24_Witness ==
    /\ FileStep
    /\ signaled
    /\ semCount = options.maxTasks
    /\ AllTasksDone
    /\ {fin[f] : f \in Matched} = {"skipped", "cancelled", "threw"}


\* C25: in a per-file step every matched file counts in at most one of
\* filesProcessed, filesSkipped and errorsEncountered, so that their sum never
\* exceeds the number of matched files; when the step has returned and its token
\* was never signalled, the sum is the number of matched files
Counted(outcome) == Cardinality({f \in Matched : fin[f] = outcome})
C25_CountersPartition ==
    FileStep =>
        /\ filesProcessed = Counted("processed")
        /\ filesSkipped = Counted("skipped")
        /\ errorsEncountered = Counted("error")
        /\ filesProcessed + filesSkipped + errorsEncountered <= step.n
        /\ (result.status = "returned" /\ ~signaled) =>
              result.filesProcessed + result.filesSkipped + result.errorsEncountered = step.n
C25_Witness ==
    /\ FileStep
    /\ result.status = "returned"
    /\ ~signaled
    /\ step.n = NumFiles
    /\ result.filesProcessed = 1
    /\ result.filesSkipped = 1
    /\ result.errorsEncountered = 1


\* C26: the calls of enlistFilePaths and getPaths made by concurrent file tasks
\* exclude one another: at most one caller is inside the guarded section, the
\* mutex is locked exactly while a caller is inside, also after a call has
\* ended with an error, and the callers waiting are exactly the queued ones
Inside == {t \in Callers : caller[t].pc = "in"}
C26_AnalyzerExclusive ==
    /\ Cardinality(Inside) <= 1
    /\ mutex.locked <=> Inside # {}
    /\ \A t \in Callers : caller[t].pc = "wait" <=> Waiting(mutex, t)
C26_Witness ==
    /\ \E t \in Callers : caller[t].pc = "failed" /\ caller[t].fn = "getPaths"
    /\ \E t \in Callers : caller[t].pc = "in" /\ caller[t].fn = "getPaths"
    /\ \E t \in Callers : caller[t].pc = "wait" /\ caller[t].fn = "enlistFilePaths"

\* C27 (as claimed): of the tasks that concurrently ask for the same missing
\* output directory at most one issues the directory-creation call for it, and
\* a task returns only when the directory exists
C27_OneCreationCall ==
    /\ \A d \in OutDirs : disk[d].calls <= 1
    /\ \A t \in Callers : caller[t].pc = "done" => disk[caller[t].dir].exists

\* C27 (amended): at most one directory-creation call is in flight at a time,
\* a second call for a path is issued only after the earlier one for it has
\* failed, and a task returns only when the directory exists
C27_OneCreationCallUnlessFailed ==
    /\ Cardinality({t \in Callers : caller[t].pc = "mkdir"}) <= 1
    /\ \A d \in OutDirs :
          /\ disk[d].calls <= disk[d].failures + 1
          /\ disk[d].exists => disk[d].calls = disk[d].failures + 1
    /\ \A t \in Callers : caller[t].pc = "done" => disk[caller[t].dir].exists
C27_Witness ==
    \E d \in OutDirs :
        /\ disk[d].exists
        /\ disk[d].calls = 1
        /\ \A t \in Callers : caller[t].dir = d
        /\ \E t \in Callers : caller[t].pc = "done"
        /\ \E t \in Callers : caller[t].pc = "in"
        /\ \E t \in Callers : caller[t].pc = "wait"


\* C28: execCmd called with a token that is already signalled rejects without
\* starting a child process
C28_NoChildWhenSignalled ==
    [][\A f \in Files :
          (signaled /\ pc[f] = "analyze" /\ pc'[f] # "analyze") =>
              (fin'[f] = "cancelled" /\ proc'[f] = "none")]_vars


\* C29: a value served from the resolver's cache equals the value a fresh
\* resolution of the name gives for the expansion mode the caller asks for
FreshCache == [n \in DOMAIN gcache |-> NoValue]
C29_CacheRespectsMode ==
    gret.cached => gret.value = resolveVariable(FreshCache, gret.name, gret.expandOption).value


\* C30: analysing a file whose #include graph has a cycle ends with a result,
\* and no file is scanned for #include directives more than once by one
\* analyser
C30_ScannedAtMostOnce ==
    \A p \in Dirs \X Headers : analyzer.scans[p] <= 1
C30_Witness ==
    /\ "b.h" \in Range(includeFiles[<<"d0", "a.h">>])
    /\ "a.h" \in Range(includeFiles[<<"d0", "b.h">>])
    /\ acall.gets = MaxGets
    /\ acall.seed = <<"d0", "b.h">>
    /\ acall.ret.k = "list"
    /\ analyzer.scans[<<"d0", "a.h">>] = 1
    /\ analyzer.scans[<<"d0", "b.h">>] = 1
    /\ analyzer.fileDependencies[<<"d0", "a.h">>] = {<<"d0", "b.h">>}
    /\ analyzer.fileDependencies[<<"d0", "b.h">>] = {<<"d0", "a.h">>}

============================================================================
